---- MODULE Spec2Model ----
(***************************************************************************)
(* A model of git-org (src/git_org/git_org.py): the URL normaliser          *)
(* url_to_fs_path, the nested-repository filter filter_nested_git_repos     *)
(* and the organize command acting on a filesystem tree.                    *)
(*                                                                         *)
(* Python strings are sequences of one-character strings, so that split,   *)
(* replace, startswith, sort and os.path.join are computed as the code     *)
(* computes them.                                                          *)
(***************************************************************************)
EXTENDS Integers, Sequences, FiniteSets, TLC

VARIABLES
    fs,       \* the filesystem: resolved path -> node
    fs0,      \* the filesystem when organize was started
    pc,       \* organize's position
    dry_run,  \* organize's dry_run argument
    plan,     \* fs_changes: sequence of <<src, dst>>
    idx,      \* index of the plan entry being executed
    input,    \* what was typed at the approval prompt, if it was shown
    log,      \* what the executor reported, per entry
    git_repos,  \* filter_nested_git_repos: the argument list (sorted in place)
    returned,   \* filter_nested_git_repos: what each call so far returned
    url,      \* url_to_fs_path: the url argument
    form,     \* how url was built: a record of its parts, or Free
    new_path  \* url_to_fs_path: the returned path, or NotRun

vars == <<fs, fs0, pc, dry_run, plan, idx, input, log, git_repos, returned, url, form, new_path>>

----------------------------------------------------------------------------
(* Python str operations on sequences of characters.                       *)

Sub(s, i, j) == IF i > j THEN <<>> ELSE SubSeq(s, i, j)

\* s[i:] with i 1-based
From(s, i) == Sub(s, i, Len(s))

\* s matches p at position i
MatchAt(s, p, i) ==
    /\ i >= 1
    /\ i + Len(p) - 1 <= Len(s)
    /\ \A k \in 1..Len(p) : s[i + k - 1] = p[k]

startswith(s, p) == MatchAt(s, p, 1)

endswith(s, p) == MatchAt(s, p, Len(s) - Len(p) + 1)

\* the first position >= i at which p occurs in s, or 0
RECURSIVE FindFrom(_, _, _)
FindFrom(s, p, i) ==
    IF i + Len(p) - 1 > Len(s) THEN 0
    ELSE IF MatchAt(s, p, i) THEN i
    ELSE FindFrom(s, p, i + 1)

\* p in s
Contains(s, p) == FindFrom(s, p, 1) > 0

\* s.split(sep): the pieces between non-overlapping occurrences, left to right
RECURSIVE split(_, _)
split(s, sep) ==
    LET i == FindFrom(s, sep, 1) IN
    IF i = 0 THEN <<s>>
    ELSE <<Sub(s, 1, i - 1)>> \o split(From(s, i + Len(sep)), sep)

\* s.replace(old, new): every non-overlapping occurrence, left to right
RECURSIVE replace(_, _, _)
replace(s, old, new) ==
    LET i == FindFrom(s, old, 1) IN
    IF i = 0 THEN s
    ELSE Sub(s, 1, i - 1) \o new \o replace(From(s, i + Len(old)), old, new)

\* l[1] + l[2] + ...
RECURSIVE Concat(_)
Concat(l) == IF l = <<>> THEN <<>> ELSE l[1] \o Concat(Tail(l))

Digits == {"0", "1", "2", "3", "4", "5", "6", "7", "8", "9"}

\* the number of digits of s starting at position i
RECURSIVE DigitRun(_, _)
DigitRun(s, i) ==
    IF i <= Len(s) /\ s[i] \in Digits THEN 1 + DigitRun(s, i + 1) ELSE 0

\* the length of the match of ":[0-9]{1,4}/" at position i, or 0
PortMatch(s, i) ==
    IF i <= Len(s) /\ s[i] = ":"
    THEN LET d == DigitRun(s, i + 1) IN
         IF d >= 1 /\ d <= 4 /\ i + d + 1 <= Len(s) /\ s[i + d + 1] = "/"
         THEN d + 2 ELSE 0
    ELSE 0

\* re.sub(r":[0-9]{1,4}/", "/", s)
RECURSIVE re_sub_port(_)
re_sub_port(s) ==
    IF s = <<>> THEN <<>>
    ELSE LET m == PortMatch(s, 1) IN
         IF m > 0 THEN <<"/">> \o re_sub_port(From(s, m + 1))
         ELSE <<s[1]>> \o re_sub_port(From(s, 2))

\* the last position of "/" in s, or 0
RECURSIVE rfind_slash(_)
rfind_slash(s) ==
    IF s = <<>> THEN 0
    ELSE IF s[Len(s)] = "/" THEN Len(s)
    ELSE rfind_slash(Sub(s, 1, Len(s) - 1))

RECURSIVE rstrip_slash(_)
rstrip_slash(s) ==
    IF s # <<>> /\ s[Len(s)] = "/" THEN rstrip_slash(Sub(s, 1, Len(s) - 1)) ELSE s

\* os.path.join(a, b) (posixpath)
path_join(a, b) ==
    IF startswith(b, <<"/">>) THEN b
    ELSE IF a = <<>> \/ endswith(a, <<"/">>) THEN a \o b
    ELSE a \o <<"/">> \o b

\* os.path.dirname(p) (posixpath)
dirname(p) ==
    LET head == Sub(p, 1, rfind_slash(p)) IN
    IF head # <<>> /\ rstrip_slash(head) # <<>> THEN rstrip_slash(head) ELSE head

\* os.path.basename(p) (posixpath)
basename(p) == From(p, rfind_slash(p) + 1)

S_git == <<".", "g", "i", "t">>
S_scm == <<"s", "c", "m", "/">>
S_file == <<"f", "i", "l", "e", ":", "/", "/">>
S_scheme == <<":", "/", "/">>

\* url.startswith('/') or url.startswith('file://')
IsLocalUrl(u) == startswith(u, <<"/">>) \/ startswith(u, S_file)

\* the string handed to os.path.join by url_to_fs_path (lines 112-131)
TrimScheme(u) == IF Contains(u, S_scheme) THEN split(u, S_scheme)[2] ELSE u

TrimUser(u) == IF Contains(u, <<"@">>) THEN split(u, <<"@">>)[2] ELSE u

TrimGit(u) ==
    IF endswith(u, S_git) \/ endswith(u, S_git \o <<"/">>) THEN split(u, S_git)[1] ELSE u

\* the transforms without the replacement of the remaining colons
TrimRest_keep_colon(u) ==
    LET a == re_sub_port(u)
        b == replace(a, <<":", "/">>, <<"/">>)
        d == replace(b, <<"~">>, <<>>)
        e == replace(d, S_scm, <<>>)
    IN  replace(replace(e, <<"/">>, <<"/">>), <<"\\">>, <<"/">>)

TrimRest(u) ==
    LET a == re_sub_port(u)
        b == replace(a, <<":", "/">>, <<"/">>)
        c == replace(b, <<":">>, <<"/">>)
        d == replace(c, <<"~">>, <<>>)
        e == replace(d, S_scm, <<>>)
    IN  replace(replace(e, <<"/">>, <<"/">>), <<"\\">>, <<"/">>)

url_rel(u) == TrimRest(TrimGit(TrimUser(TrimScheme(u))))

url_to_fs_path(root, u) ==
    IF IsLocalUrl(u) THEN u ELSE path_join(root, url_rel(u))

----------------------------------------------------------------------------
(* filter_nested_git_repos                                                 *)

\* the characters of the model in code point order
CharOrder ==
    <<"-", ".", "/", "0", "1", "2", "3", "4", "5", "6", "7", "8", "9", ":", "@",
      "E", "N", "O", "S", "Y", "\\", "_",
      "a", "b", "c", "d", "e", "f", "g", "h", "i", "j", "k", "l", "m", "n", "o",
      "p", "q", "r", "s", "t", "u", "v", "w", "x", "y", "z", "~">>

Ord(c) == CHOOSE i \in 1..Len(CharOrder) : CharOrder[i] = c

\* a < b for Python strings
RECURSIVE StrLess(_, _)
StrLess(a, b) ==
    IF b = <<>> THEN FALSE
    ELSE IF a = <<>> THEN TRUE
    ELSE IF a[1] = b[1] THEN StrLess(Tail(a), Tail(b))
    ELSE Ord(a[1]) < Ord(b[1])

\* x put into the sorted list l, after the elements equal to it
RECURSIVE Insert(_, _)
Insert(l, x) ==
    IF l = <<>> THEN <<x>>
    ELSE IF StrLess(x, l[1]) THEN <<x>> \o l
    ELSE <<l[1]>> \o Insert(Tail(l), x)

\* list.sort()
RECURSIVE sort(_)
sort(l) == IF l = <<>> THEN <<>> ELSE Insert(sort(Sub(l, 1, Len(l) - 1)), l[Len(l)])

\* what a call gives: the value it returns, or the exception it raises
Ret(v) == [raised |-> FALSE, value |-> v]

IndexError == [raised |-> TRUE, value |-> <<>>]

\* _is_sublist comparing the two lists as wholes
is_sublist_whole(lst1, lst2) == Ret(lst1 = lst2)

\* _is_sublist(lst1, lst2): the outcome of the last comparison of the loop over
\* lst2, or IndexError when the loop reads lst1 past its end
is_sublist(lst1, lst2) ==
    IF Len(lst2) > Len(lst1) THEN IndexError
    ELSE IF lst2 = <<>> THEN Ret(TRUE)
    ELSE Ret(lst2[Len(lst2)] = lst1[Len(lst2)])

\* the inner loop of filter_nested_git_repos over git_parents[k..]: the value of
\* append after it, or IndexError
RECURSIVE AppendFlag(_, _, _, _)
AppendFlag(repo, parents, k, append) ==
    IF k > Len(parents) THEN Ret(append)
    ELSE LET r == is_sublist(split(repo, <<"/">>), split(parents[k], <<"/">>)) IN
         IF r.raised THEN IndexError
         ELSE AppendFlag(repo, parents, k + 1, IF r.value THEN FALSE ELSE append)

\* the outer loop of filter_nested_git_repos over repos[k..]
RECURSIVE FilterLoop(_, _, _)
FilterLoop(repos, k, parents) ==
    IF k > Len(repos) THEN Ret(parents)
    ELSE LET a == AppendFlag(repos[k], parents, 1, TRUE) IN
         IF a.raised THEN IndexError
         ELSE FilterLoop(repos, k + 1, IF a.value THEN Append(parents, repos[k]) ELSE parents)

\* the filter deleting nested entries from the list it is iterating over, so
\* that the entry after a deleted one is passed over
RECURSIVE InPlaceLoop(_, _)
InPlaceLoop(repos, k) ==
    IF k > Len(repos) THEN Ret(repos)
    ELSE LET a == AppendFlag(repos[k], Sub(repos, 1, k - 1), 1, TRUE) IN
         IF a.raised THEN IndexError
         ELSE InPlaceLoop(IF a.value THEN repos
                          ELSE Sub(repos, 1, k - 1) \o From(repos, k + 1), k + 1)

filter_in_place(l) == InPlaceLoop(sort(l), 1)

\* filter_nested_git_repos(l): the returned list, or IndexError
filter_nested_git_repos(l) == FilterLoop(sort(l), 1, <<>>)

----------------------------------------------------------------------------
(* The filesystem: a function from resolved paths (sequences of names,      *)
(* from "/") to nodes. A repository's .git/config carries the identity of   *)
(* its tree and its origin URL, if it has one.                              *)

Cwd == <<<<"w">>>>

N_git == S_git
N_config == <<"c", "o", "n", "f", "i", "g">>

\* what a config file gives for the url of the section remote "origin": err
\* names the exception configparser raises instead of giving an answer
NoUrl == [some |-> FALSE, url |-> <<>>, err |-> ""]
SomeUrl(u) == [some |-> TRUE, url |-> u, err |-> ""]

\* a section remote "origin" without a url key: config.get raises
NoUrlKey == [some |-> FALSE, url |-> <<>>, err |-> "NoOptionError"]

\* a file that is no configuration file (text before the first section
\* header): config.read raises
Malformed == [some |-> FALSE, url |-> <<>>, err |-> "MissingSectionHeaderError"]

ConfigError == [raised |-> TRUE, value |-> <<>>]

DirNode == [k |-> "dir", id |-> 0, origin |-> NoUrl]
ConfigNode(i, o) == [k |-> "file", id |-> i, origin |-> o]

\* the names of a path string, relative ones taken from the working directory
Resolve(p) ==
    LET names == SelectSeq(split(p, <<"/">>), LAMBDA n : n # <<>>) IN
    IF startswith(p, <<"/">>) THEN names ELSE Cwd \o names

IsPrefix(a, b) == Len(a) <= Len(b) /\ Sub(b, 1, Len(a)) = a

Prefixes(r) == {Sub(r, 1, n) : n \in 0..Len(r)}

\* the nodes at r and below it
Under(f, r) == {q \in DOMAIN f : IsPrefix(r, q)}

exists(f, p) == Resolve(p) \in DOMAIN f

\* os.path.isdir
isdir(f, p) == exists(f, p) /\ f[Resolve(p)].k = "dir"

\* os.listdir
listdir(f, p) == {q[Len(q)] : q \in {c \in DOMAIN f : Len(c) = Len(Resolve(p)) + 1 /\ IsPrefix(Resolve(p), c)}}

\* is_git_repo with the wrong test on x/.git
is_git_repo_isfile(f, x) ==
    /\ exists(f, path_join(x, S_git))
    /\ f[Resolve(path_join(x, S_git))].k = "file"
    /\ S_git \in listdir(f, x)

is_git_repo(f, x) == isdir(f, path_join(x, S_git)) /\ S_git \in listdir(f, x)

\* os.makedirs(p), FileExistsError ignored (_ensure_dir_exists)
ensure_dir_exists(f, p) ==
    [q \in DOMAIN f \cup Prefixes(Resolve(p)) |-> IF q \in DOMAIN f THEN f[q] ELSE DirNode]

\* os.makedirs(p): the exception it raises, "" when it makes the directories
makedirs_error(f, p) ==
    IF p = <<>> THEN "FileNotFoundError"
    ELSE IF exists(f, p) THEN "FileExistsError"
    ELSE IF \E q \in Prefixes(Resolve(p)) : q \in DOMAIN f /\ f[q].k = "file"
         THEN "NotADirectoryError"
    ELSE ""

\* _ensure_dir_exists without its except clause
ensure_dir_exists_error_uncaught(f, p) == makedirs_error(f, p)

\* the exception _ensure_dir_exists lets through, "" when there is none
ensure_dir_exists_error(f, p) ==
    IF makedirs_error(f, p) = "FileExistsError" THEN "" ELSE makedirs_error(f, p)

\* _clone with a test for a repository instead of a directory
clone_refused_repo_only(f, fs_path) == is_git_repo(f, fs_path)

\* _clone ends the process when the path is a directory
clone_refused(f, fs_path) == isdir(f, fs_path)

\* the tree at r renamed to t
Renamed(f, r, t) ==
    LET keep == DOMAIN f \ Under(f, r)
        new  == {t \o Sub(q, Len(r) + 1, Len(q)) : q \in Under(f, r)}
    IN  [q \in keep \cup new |->
            IF q \in keep THEN f[q] ELSE f[r \o Sub(q, Len(t) + 1, Len(q))]]

\* the tree at r deleted
Removed(f, r) == [q \in DOMAIN f \ Under(f, r) |-> f[q]]

Moved(f2) == [ok |-> TRUE, fs |-> f2]
MoveError(f) == [ok |-> FALSE, fs |-> f]

\* shutil.move(src, dst): into dst when dst is a directory, else onto dst; by
\* os.rename, or by copytree and rmtree when the rename cannot be done
shutil_move(f, src, dst) ==
    LET real == IF isdir(f, dst) THEN path_join(dst, basename(rstrip_slash(src))) ELSE dst
        r == Resolve(src)
        t == Resolve(real)
    IN  IF ~exists(f, src) THEN MoveError(f)
        ELSE IF isdir(f, dst) /\ Resolve(dst) = r THEN Moved(f)
        ELSE IF exists(f, real) THEN MoveError(f)
        ELSE IF IsPrefix(r, t) THEN MoveError(f)
        ELSE Moved(Renamed(ensure_dir_exists(f, dirname(real)), r, t))

\* sorted(l, reverse=True): an order in which a directory may list its entries
RECURSIVE Reverse(_)
Reverse(l) == IF l = <<>> THEN <<>> ELSE Append(Reverse(Tail(l)), l[1])

RECURSIVE SetToSeq(_)
SetToSeq(S) ==
    IF S = {} THEN <<>>
    ELSE LET x == CHOOSE x \in S : TRUE IN <<x>> \o SetToSeq(S \ {x})

Listing(f, p) == Reverse(sort(SetToSeq({n \in listdir(f, p) : isdir(f, path_join(p, n))})))

\* find_git_repos: os.walk(root), top down, keeping the directories that have
\* a .git directory among their entries
RECURSIVE walk(_, _)
walk(f, p) ==
    LET dirs == Listing(f, p) IN
    (IF \E i \in DOMAIN dirs : dirs[i] = S_git THEN <<p>> ELSE <<>>)
    \o Concat([i \in DOMAIN dirs |-> walk(f, path_join(p, dirs[i]))])

find_git_repos(f, root) == IF isdir(f, root) THEN walk(f, root) ELSE <<>>

\* _extract_origin_url(_read_git_config(repo), repo): a missing file reads as
\* an empty configuration; err is set when one of the two calls raises
extract_origin_url(f, repo) ==
    LET c == Resolve(path_join(path_join(repo, S_git), N_config)) IN
    IF c \in DOMAIN f /\ f[c].k = "file" THEN f[c].origin ELSE NoUrl

\* determine_fs_changes: the pairs of the repositories that have an origin, or
\* ConfigError when reading a repository's configuration raises
RECURSIVE determine_fs_changes(_, _, _)
determine_fs_changes(f, root, repos) ==
    IF repos = <<>> THEN Ret(<<>>)
    ELSE LET o == extract_origin_url(f, repos[1]) IN
         IF o.err # "" THEN ConfigError
         ELSE LET rest == determine_fs_changes(f, root, Tail(repos)) IN
              IF rest.raised THEN ConfigError
              ELSE Ret((IF o.some THEN <<<<repos[1], url_to_fs_path(root, o.url)>>>> ELSE <<>>)
                       \o rest.value)

\* determine_fs_changes, then the filter of the non-changes
fs_changes(f, root, repos) ==
    LET d == determine_fs_changes(f, root, repos) IN
    IF d.raised THEN ConfigError ELSE Ret(SelectSeq(d.value, LAMBDA x : x[1] # x[2]))

\* str.lower() on the letters of the model
lower(t) ==
    [i \in DOMAIN t |->
        CASE t[i] = "Y" -> "y" [] t[i] = "E" -> "e" [] t[i] = "S" -> "s"
          [] t[i] = "N" -> "n" [] t[i] = "O" -> "o" [] OTHER -> t[i]]

\* a prompt that takes everything but a refusal for a yes
prompt_user_approval_default_yes(t) == lower(t) \notin {<<"n">>, <<"n", "o">>}

\* prompt_user_approval, given what was typed
prompt_user_approval(t) == lower(t) \in {<<"y">>, <<"y", "e", "s">>}

\* the directory tempfile.TemporaryDirectory() makes
tmp_dir == <<"/", "t", "m", "p", "/", "t">>

----------------------------------------------------------------------------
(* The inputs of the pure functions.                                        *)

MaxDepth == 2
MaxList == 3
MaxTokens == 3

\* '/'.join(segs)
RECURSIVE JoinSegs(_)
JoinSegs(segs) ==
    IF Len(segs) = 0 THEN <<>>
    ELSE IF Len(segs) = 1 THEN segs[1]
    ELSE segs[1] \o <<"/">> \o JoinSegs(Tail(segs))

Tuples(S, lo, hi) == UNION {[1..n -> S] : n \in lo..hi}

\* directory names: "a" is a string prefix of "ab" and not a path prefix of it
SegNames == {<<"a">>, <<"a", "b">>}

PathStrings == {JoinSegs(t) : t \in Tuples(SegNames, 1, MaxDepth)}

RepoLists == Tuples(PathStrings, 0, MaxList)

Tokens ==
    {S_scheme, <<"@">>, <<":">>, <<"/">>, <<"~">>, S_git, S_scm, <<"s">>,
     <<"c", "m", "/">>, <<"1">>, <<"a">>, <<"\\">>, <<"f", "i", "l", "e">>}

FreeUrls == {Concat(t) : t \in Tuples(Tokens, 0, MaxTokens)}

Root == <<"r">>

Schemes == {<<"s", "s", "h">>, <<"f", "t", "p", "s">>}
Users == {<<"g", "i", "t">>}
Hosts == {<<"h", ".", "x", "z">>, <<"m", "y", "s", "c", "m">>}
Ports == {<<"1">>, <<"2", "2">>, <<"7", "9", "9", "9">>}
PlainPaths == {<<"a">>, <<"a", "/", "b">>, <<"1", "2", "/", "x">>, <<"x", "/", "1", "2">>}

Free == [k |-> 0, s |-> <<>>, u |-> <<>>, h |-> <<>>, n |-> <<>>, p |-> <<>>, d |-> 0]

Forms == [k : 1..7, s : Schemes, u : Users, h : Hosts, n : Ports, p : PlainPaths, d : 0..3]

\* the path as the URL spells it: d = 1 puts '~' in front of it, d = 2 a 'scm/'
\* segment, d = 3 both
Spelled(f) ==
    CASE f.d = 0 -> f.p
      [] f.d = 1 -> <<"~">> \o f.p
      [] f.d = 2 -> S_scm \o f.p
      [] OTHER   -> S_scm \o <<"~">> \o f.p

\* the URL of each shape of remote
Build(f) ==
    LET p == Spelled(f) IN
    CASE f.k = 1 -> f.s \o S_scheme \o f.h \o <<"/">> \o p \o S_git
      [] f.k = 2 -> f.s \o S_scheme \o f.u \o <<"@">> \o f.h \o <<"/">> \o p \o S_git
      [] f.k = 3 -> f.s \o S_scheme \o f.u \o <<"@">> \o f.h \o <<":">> \o f.n \o <<"/">> \o p \o S_git
      [] f.k = 4 -> f.s \o S_scheme \o f.h \o <<":">> \o f.n \o <<"/">> \o p \o S_git \o <<"/">>
      [] f.k = 5 -> f.s \o S_scheme \o f.u \o <<"@">> \o f.h \o <<":">> \o p \o S_git
      [] f.k = 6 -> f.h \o <<":">> \o p \o S_git
      [] OTHER   -> f.u \o <<"@">> \o f.h \o <<":", "/">> \o p \o S_git \o <<"/">>

NotRun == [run |-> FALSE, value |-> <<>>]

NotAsked == [asked |-> FALSE, text |-> <<>>]

OrganizeIdle ==
    /\ fs = <<>> /\ fs0 = <<>> /\ pc = "idle" /\ dry_run = FALSE
    /\ plan = <<>> /\ idx = 0 /\ input = NotAsked /\ log = <<>>

FilterIdle == git_repos = <<>> /\ returned = <<>>

UrlIdle == url = <<>> /\ form = Free /\ new_path = NotRun

orgVars == <<fs, fs0, pc, dry_run, plan, idx, input, log>>
filterVars == <<git_repos, returned>>
urlVars == <<url, form, new_path>>

----------------------------------------------------------------------------
(* filter_nested_git_repos, called on a list and then on what it returned. *)

InitFilter == OrganizeIdle /\ UrlIdle /\ git_repos \in RepoLists /\ returned = <<>>

CallFilter ==
    /\ returned = <<>>
    /\ returned' = <<filter_nested_git_repos(git_repos)>>
    /\ git_repos' = sort(git_repos)
    /\ UNCHANGED <<orgVars, urlVars>>

CallFilterAgain ==
    /\ Len(returned) = 1
    /\ ~returned[1].raised
    /\ returned' = Append(returned, filter_nested_git_repos(returned[1].value))
    /\ git_repos' = sort(returned[1].value)
    /\ UNCHANGED <<orgVars, urlVars>>

NextFilter == CallFilter \/ CallFilterAgain

SpecFilter == InitFilter /\ [][NextFilter]_vars

----------------------------------------------------------------------------
(* url_to_fs_path, called on a URL.                                        *)

InitUrl ==
    /\ OrganizeIdle /\ FilterIdle
    /\ \/ form = Free /\ url \in FreeUrls
       \/ form \in Forms /\ url = Build(form)
    /\ new_path = NotRun

CallUrlToFsPath ==
    /\ ~new_path.run
    /\ new_path' = [run |-> TRUE, value |-> url_to_fs_path(Root, url)]
    /\ UNCHANGED <<orgVars, filterVars, url, form>>

\* the same URL given again with '.git' or '.git/' at its end
CallWithGitSuffix ==
    /\ new_path.run
    /\ form = Free
    /\ ~endswith(url, S_git)
    /\ ~endswith(url, S_git \o <<"/">>)
    /\ \E sfx \in {S_git, S_git \o <<"/">>} :
          /\ url' = url \o sfx
          /\ new_path' = [run |-> TRUE, value |-> url_to_fs_path(Root, url')]
    /\ UNCHANGED <<orgVars, filterVars, form>>

NextUrl == CallUrlToFsPath \/ CallWithGitSuffix

SpecUrl == InitUrl /\ [][NextUrl]_vars

----------------------------------------------------------------------------
(* organize(Root, dry_run) on a projects root holding repositories.         *)

U_hx == <<"h", ":", "x">>
U_hxb == <<"u", "@", "h", ":", "x", "/", "b", ".", "g", "i", "t">>
U_abs == <<"/", "l">>
U_file == S_file \o <<"/", "l">>

Absent == [present |-> FALSE, config |-> FALSE, origin |-> NoUrl]
Repo(o) == [present |-> TRUE, config |-> TRUE, origin |-> o]

\* a repository whose .git directory has no config file
RepoNoConfig == [present |-> TRUE, config |-> FALSE, origin |-> NoUrl]

\* where a repository may lie under the root before the run, and with which
\* origin; the tree at Slots[i] has the identity i
Slots == <<<<"a">>, <<"a", "/", "n">>, <<"b">>, <<"h", "/", "x">>>>

SlotOptions ==
    <<{Absent, Repo(NoUrl), Repo(SomeUrl(U_hx)), Repo(SomeUrl(U_hxb)),
       Repo(SomeUrl(U_abs)), Repo(SomeUrl(U_file))},
      {Absent, Repo(SomeUrl(U_hx))},
      {Absent, Repo(NoUrl), Repo(SomeUrl(U_hx)), Repo(SomeUrl(U_abs)),
       Repo(NoUrlKey), Repo(Malformed), RepoNoConfig},
      {Absent, Repo(SomeUrl(U_hx))}>>

Layouts == {c \in [DOMAIN Slots -> UNION {SlotOptions[i] : i \in DOMAIN Slots}] :
               \A i \in DOMAIN Slots : c[i] \in SlotOptions[i]}

SlotPath(i) == path_join(Root, Slots[i])

\* the identity of the repository at /l, the target of U_abs and U_file
LocalId == Len(Slots) + 1

BaseFs == [q \in Prefixes(Resolve(Root)) \cup {<<>>, Resolve(dirname(tmp_dir))} |-> DirNode]

\* f with a repository at p: p/.git/config with identity i and origin o
WithRepo(f, p, i, o) ==
    LET g == ensure_dir_exists(f, path_join(p, S_git))
        c == Resolve(path_join(path_join(p, S_git), N_config))
    IN  [q \in DOMAIN g \cup {c} |-> IF q = c THEN ConfigNode(i, o) ELSE g[q]]

RECURSIVE WithSlots(_, _, _)
WithSlots(f, c, i) ==
    IF i > Len(Slots) THEN f
    ELSE WithSlots(IF ~c[i].present THEN f
                   ELSE IF c[i].config THEN WithRepo(f, SlotPath(i), i, c[i].origin)
                   ELSE ensure_dir_exists(f, path_join(SlotPath(i), S_git)),
                   c, i + 1)

MkFs(c, plain, local) ==
    LET f1 == WithSlots(BaseFs, c, 1)
        f2 == IF plain THEN ensure_dir_exists(f1, SlotPath(Len(Slots))) ELSE f1
    IN  IF local THEN WithRepo(f2, U_abs, LocalId, NoUrl) ELSE f2

\* what may be typed at the prompt
Inputs ==
    {<<>>, <<"y">>, <<"Y">>, <<"y", "e", "s">>, <<"Y", "e", "s">>, <<"Y", "E", "S">>,
     <<"n">>, <<"N">>, <<"n", "o">>, <<"y", "e">>}

Init ==
    /\ FilterIdle /\ UrlIdle
    /\ \E c \in Layouts, plain \in BOOLEAN, local \in BOOLEAN :
          /\ plain => ~c[Len(Slots)].present
          /\ fs = MkFs(c, plain, local)
    /\ fs0 = fs
    /\ pc = "start"
    /\ dry_run \in BOOLEAN
    /\ plan = <<>>
    /\ idx = 0
    /\ input = NotAsked
    /\ log = <<>>

src == plan[idx][1]
dst == plan[idx][2]
tmp_src == path_join(tmp_dir, basename(src))

\* lines 162-176: discovery, the filter, the plan
Plan ==
    /\ pc = "start"
    /\ LET found == filter_nested_git_repos(find_git_repos(fs, Root)) IN
       IF found.raised THEN pc' = "raised" /\ plan' = plan
       ELSE IF found.value = <<>> THEN pc' = "exit" /\ plan' = plan
       ELSE LET changes == fs_changes(fs, Root, found.value) IN
            IF changes.raised THEN pc' = "raised" /\ plan' = plan
            ELSE pc' = "approve" /\ plan' = changes.value
    /\ UNCHANGED <<fs, fs0, dry_run, idx, input, log, filterVars, urlVars>>

Enter(i) ==
    /\ idx' = i
    /\ pc' = IF i > Len(plan) THEN "done" ELSE "entry"

\* lines 177-178
DryRun ==
    /\ pc = "approve"
    /\ dry_run
    /\ pc' = "done"
    /\ UNCHANGED <<fs, fs0, dry_run, plan, idx, input, log, filterVars, urlVars>>

\* lines 179-181
Prompt ==
    /\ pc = "approve"
    /\ ~dry_run
    /\ \E t \in Inputs :
          /\ input' = [asked |-> TRUE, text |-> t]
          /\ IF prompt_user_approval(t) THEN Enter(1) ELSE pc' = "done" /\ idx' = idx
    /\ UNCHANGED <<fs, fs0, dry_run, plan, log, filterVars, urlVars>>

\* lines 183-194: the parent directory, the test of the destination, the
\* temporary directory
BeginEntry ==
    /\ pc = "entry"
    /\ LET parent_dir == dirname(dst)
           f1 == IF ~isdir(fs, parent_dir) THEN ensure_dir_exists(fs, parent_dir) ELSE fs
       IN  IF is_git_repo(f1, dst)
           THEN /\ fs' = f1
                /\ log' = Append(log, [i |-> idx, what |-> "exists"])
                /\ Enter(idx + 1)
           ELSE /\ fs' = ensure_dir_exists(f1, tmp_dir)
                /\ log' = Append(log, [i |-> idx, what |-> "moving"])
                /\ pc' = "tmp"
                /\ idx' = idx
    /\ UNCHANGED <<fs0, dry_run, plan, input, filterVars, urlVars>>

\* line 196; the move may also fail for a reason outside the tree (permissions)
MoveToStaging ==
    /\ pc = "tmp"
    /\ \E io_ok \in BOOLEAN :
          LET m == shutil_move(fs, src, tmp_src) IN
          IF io_ok /\ m.ok THEN fs' = m.fs /\ pc' = "staged"
          ELSE fs' = fs /\ pc' = "unwind"
    /\ UNCHANGED <<fs0, dry_run, plan, idx, input, log, filterVars, urlVars>>

\* line 197; the move may also fail for a reason outside the tree (disk full)
MoveToDestination ==
    /\ pc = "staged"
    /\ \E io_ok \in BOOLEAN :
          LET m == shutil_move(fs, tmp_src, dst) IN
          IF io_ok /\ m.ok THEN fs' = m.fs /\ pc' = "leave"
          ELSE fs' = fs /\ pc' = "unwind"
    /\ UNCHANGED <<fs0, dry_run, plan, idx, input, log, filterVars, urlVars>>

\* the end of the with block of line 194: the temporary directory is deleted
\* with what it holds, and a pending exception ends the run
LeaveTmp ==
    /\ pc \in {"leave", "unwind"}
    /\ fs' = Removed(fs, Resolve(tmp_dir))
    /\ IF pc = "unwind" THEN pc' = "raised" /\ idx' = idx ELSE Enter(idx + 1)
    /\ UNCHANGED <<fs0, dry_run, plan, input, log, filterVars, urlVars>>

Next ==
    \/ Plan
    \/ DryRun
    \/ Prompt
    \/ BeginEntry
    \/ MoveToStaging
    \/ MoveToDestination
    \/ LeaveTmp

Spec == Init /\ [][Next]_vars

----------------------------------------------------------------------------
(* clone(Root, url), called a number of times on one filesystem.           *)

MaxClones == 2

U_hp == <<"h", ":", "p">>
U_hpx == <<"h", ":", "p", "/", "x">>
U_hpy == <<"h", ":", "p", "/", "y">>

\* a URL whose path goes through the config file of the repository of U_hx
U_thru == U_hx \o <<"/">> \o S_git \o <<"/">> \o N_config \o <<"/", "a", "/", "b">>

CloneUrls == {U_hx, U_hxb, U_hp, U_hpx, U_hpy, U_abs, U_thru}

\* the layouts with nothing under the root but, at most, a repository at h/x
CloneLayouts == {c \in Layouts : \A i \in 1..(Len(Slots) - 1) : ~c[i].present}

Call(u, p, inv, out) == [url |-> u, fs_path |-> p, invoked |-> inv, outcome |-> out]

InitClone ==
    /\ FilterIdle /\ UrlIdle
    /\ \E c \in CloneLayouts, plain \in BOOLEAN, local \in BOOLEAN :
          /\ plain => ~c[Len(Slots)].present
          /\ fs = MkFs(c, plain, local)
    /\ fs0 = fs
    /\ pc = "clone"
    /\ dry_run = FALSE
    /\ plan = <<>>
    /\ idx = 0
    /\ input = NotAsked
    /\ log = <<>>

\* lines 216-219 and 200-206: the path, its parent directory, the test of the
\* path, and git.Repo.clone_from, which makes a repository at a path that does
\* not exist yet and may fail for a reason of its own (the remote, the branch)
Clone ==
    /\ pc = "clone"
    /\ idx < MaxClones
    /\ idx' = idx + 1
    /\ \E u \in CloneUrls, remote_ok \in BOOLEAN :
          LET fs_path == url_to_fs_path(Root, u)
              parent == dirname(fs_path)
              f1 == ensure_dir_exists(fs, parent)
          IN  IF ensure_dir_exists_error(fs, parent) # ""
              THEN /\ fs' = fs
                   /\ log' = Append(log, Call(u, fs_path, FALSE, "raised"))
              ELSE IF clone_refused(f1, fs_path)
              THEN /\ fs' = f1
                   /\ log' = Append(log, Call(u, fs_path, FALSE, "exit1"))
              ELSE IF remote_ok /\ ~exists(f1, fs_path)
              THEN /\ fs' = WithRepo(f1, fs_path, LocalId + idx', SomeUrl(u))
                   /\ log' = Append(log, Call(u, fs_path, TRUE, "cloned"))
              ELSE /\ fs' = f1
                   /\ log' = Append(log, Call(u, fs_path, TRUE, "GitCommandError"))
    /\ UNCHANGED <<fs0, pc, dry_run, plan, input, filterVars, urlVars>>

NextClone == Clone

SpecClone == InitClone /\ [][NextClone]_vars

----------------------------------------------------------------------------
(* Properties of organize (Spec).                                          *)

Elems(l) == {l[i] : i \in DOMAIN l}

ConfigOf(p) == Resolve(path_join(path_join(p, S_git), N_config))

\* the tree with identity i has its root at exactly p
TreeAt(f, i, p) == ConfigOf(p) \in DOMAIN f /\ f[ConfigOf(p)].id = i

\* the tree with identity i is somewhere: at its source, in the temporary
\* directory or at a destination
Present(f, i) == \E q \in DOMAIN f : f[q].id = i

Ids(f) == {f[q].id : q \in DOMAIN f} \ {0}

\* the identity of the tree that was at p when the run started
Id0(p) == fs0[ConfigOf(p)].id

\* p directly contains a .git subdirectory
HasDotGit(f, p) == Resolve(p) \o <<N_git>> \in DOMAIN f /\ f[Resolve(p) \o <<N_git>>].k = "dir"

\* the run was approved and went through the whole plan
Completed == pc = "done" /\ idx > Len(plan)

\* C1: at every point of the run, also after a failed step, the tree of every
\* repository of the plan (here: with a remote origin) is at its source, in the
\* staging directory or at a destination.
C1_TreeNeverAbsent ==
    \A j \in DOMAIN plan :
        ~IsLocalUrl(extract_origin_url(fs0, plan[j][1]).url) => Present(fs, Id0(plan[j][1]))

\* of two entries of the plan with one destination, when the first one's tree is
\* at the destination after the run, the second one's tree is at its source
SameOriginDone ==
    \A i, j \in DOMAIN plan :
        (Completed /\ i < j /\ plan[i][2] = plan[j][2]
           /\ TreeAt(fs, Id0(plan[i][1]), plan[i][2])) =>
            TreeAt(fs, Id0(plan[j][1]), plan[j][1])

\* C2: an entry whose destination directly contains a .git subdirectory when the
\* entry is processed is skipped, the filesystem staying as it is; of two
\* repositories with one origin URL the first ends at the destination and the
\* second stays at its source.
C2_ExistingRepoSkipped ==
    /\ [][(pc = "entry" /\ HasDotGit(fs, dst)) =>
            (fs' = fs /\ idx' = idx + 1 /\ pc' \in {"entry", "done"})]_vars
    /\ []SameOriginDone

\* C2's case: the run skipped an entry whose destination an earlier entry of the
\* same run had been moved to.
C2_Witness ==
    /\ Completed
    /\ \E i, j \in DOMAIN plan :
          /\ i < j
          /\ plan[i][2] = plan[j][2]
          /\ log[i].what = "moving"
          /\ log[j].what = "exists"
          /\ TreeAt(fs, Id0(plan[i][1]), plan[i][2])
          /\ TreeAt(fs, Id0(plan[j][1]), plan[j][1])

\* C3: url_to_fs_path returns an origin URL that starts with '/' or 'file://'
\* as it is, and after an approved run a repository with such an origin is at
\* the path it was at, nothing having been created for it.
C3_LocalOriginStays ==
    \A i \in DOMAIN Slots :
        LET o == extract_origin_url(fs0, SlotPath(i)) IN
        (o.some /\ IsLocalUrl(o.url)) =>
            /\ url_to_fs_path(Root, o.url) = o.url
            /\ Completed => TreeAt(fs, i, SlotPath(i))
            /\ (Completed /\ \A j \in DOMAIN plan : plan[j][1] = SlotPath(i)) => fs = fs0

\* the spellings of y and yes
YesSpellings ==
    {<<"y">>, <<"Y">>} \cup
    {<<a, b, c>> : a \in {"y", "Y"}, b \in {"e", "E"}, c \in {"s", "S"}}

\* C4: with dry_run the prompt is not shown, and the filesystem differs from the
\* one the run started with only when the run was not a dry run and y or yes
\* was typed at the prompt.
C4_NoChangeWithoutApproval ==
    /\ dry_run => ~input.asked
    /\ fs # fs0 => (~dry_run /\ input.asked /\ input.text \in YesSpellings)

\* C4's case: a dry run with a plan to show has ended.
C4_Witness == pc = "done" /\ dry_run /\ plan # <<>>

\* C5: after an approved run every entry that was not skipped has its tree at
\* exactly its destination and no longer at its source, the repositories
\* without an origin are where they were, and nothing was created but the
\* destinations and their parent directories.
C5_RelocatedExactly ==
    Completed =>
        /\ \A j \in DOMAIN plan :
              log[j].what = "moving" =>
                  /\ TreeAt(fs, Id0(plan[j][1]), plan[j][2])
                  /\ ~TreeAt(fs, Id0(plan[j][1]), plan[j][1])
        /\ \A i \in DOMAIN Slots :
              (TreeAt(fs0, i, SlotPath(i)) /\ ~extract_origin_url(fs0, SlotPath(i)).some) =>
                  TreeAt(fs, i, SlotPath(i))
        /\ \A q \in DOMAIN fs \ DOMAIN fs0 :
              \E j \in DOMAIN plan :
                  IsPrefix(q, Resolve(plan[j][2])) \/ IsPrefix(Resolve(plan[j][2]), q)

\* C13: when the relocation of an entry of an approved run fails, the entries
\* after it are processed all the same: a run that ended on a failure has
\* gone through every entry of its plan.
C13_LaterEntriesProcessed ==
    pc = "raised" => \A j \in DOMAIN plan : j \in DOMAIN log

\* the repositories organize plans for: those found under the root, less the
\* nested ones
Found == filter_nested_git_repos(find_git_repos(fs0, Root))

\* C14: a repository whose configuration yields no origin URL (no config file,
\* a malformed one, no section remote "origin", or a section without a url
\* key) does not end the planning: the plan is made, it lacks that repository,
\* and it has every other repository whose origin gives another path.
C14_NoOriginIsSkipped ==
    (pc # "start" /\ ~Found.raised /\ Found.value # <<>>) =>
        /\ ~(pc = "raised" /\ idx = 0)
        /\ \A r \in Elems(Found.value) :
              LET o == extract_origin_url(fs0, r) IN
              (o.some /\ url_to_fs_path(Root, o.url) # r)
                  <=> (\E j \in DOMAIN plan : plan[j][1] = r)

----------------------------------------------------------------------------
(* Properties of filter_nested_git_repos (SpecFilter).                     *)

\* p lies inside q: q's segments are a proper prefix of p's segments
Inside(p, q) ==
    LET a == split(q, <<"/">>)
        b == split(p, <<"/">>)
    IN  Len(a) < Len(b) /\ Sub(b, 1, Len(a)) = a

Ascending(l) == \A i \in 1..(Len(l) - 1) : StrLess(l[i], l[i + 1])

NoneInside(l) == \A i, j \in DOMAIN l : ~Inside(l[i], l[j])

\* C6: the list returned for an input list is, in lexicographic order, exactly
\* the input paths that do not lie inside another input path.
C6_ExactlyTheOutermost ==
    (Len(returned) = 1 /\ ~returned[1].raised) =>
        /\ Ascending(returned[1].value)
        /\ Elems(returned[1].value) =
             {p \in Elems(git_repos) : ~\E q \in Elems(git_repos) : Inside(p, q)}

\* C7: no element of a returned list lies inside another element of it.
C7_NoNestedInResult ==
    \A i \in DOMAIN returned : ~returned[i].raised => NoneInside(returned[i].value)

\* C7's case: the input held a path inside another one, and the call returned
\* two paths or more.
C7_Witness ==
    /\ Len(returned) = 1
    /\ ~returned[1].raised
    /\ Len(returned[1].value) >= 2
    /\ \E p, q \in Elems(git_repos) : Inside(p, q)

\* C8: the filter applied to its own result returns that result, element for
\* element.
C8_Idempotent == Len(returned) = 2 => returned[2] = returned[1]

\* C8's case: the second call was made on a result of two paths or more.
C8_Witness ==
    /\ Len(returned) = 2
    /\ ~returned[2].raised
    /\ Len(returned[1].value) >= 2

\* C17: the filter returns, without raising, for every list of paths, also
\* when a path of fewer segments sorts after one of more segments.
C17_NeverRaises == \A i \in DOMAIN returned : ~returned[i].raised

----------------------------------------------------------------------------
(* Properties of url_to_fs_path (SpecUrl).                                 *)

\* the part of a returned path that follows root
AfterRoot(p) == IF startswith(p, Root) THEN From(p, Len(Root) + 1) ELSE p

\* C9: for a URL that is not a local path, what follows root in the returned
\* path has no ':', '~', '@', '.git' or 'scm/'.
C9_NoneOfTheFive ==
    (new_path.run /\ ~IsLocalUrl(url)) =>
        LET rest == AfterRoot(new_path.value) IN
        /\ ~Contains(rest, <<":">>)
        /\ ~Contains(rest, <<"~">>)
        /\ ~Contains(rest, <<"@">>)
        /\ ~Contains(rest, S_git)
        /\ ~Contains(rest, S_scm)

\* C9 as amended: for a URL that is not a local path, what follows root in the
\* returned path has no ':', '~' or '@'.
C9_NoColonTildeAt ==
    (new_path.run /\ ~IsLocalUrl(url)) =>
        LET rest == AfterRoot(new_path.value) IN
        /\ ~Contains(rest, <<":">>)
        /\ ~Contains(rest, <<"~">>)
        /\ ~Contains(rest, <<"@">>)

\* C9's case: a URL with a colon and a tilde after the user part was normalised.
C9_Witness ==
    /\ new_path.run
    /\ ~IsLocalUrl(url)
    /\ form = Free
    /\ Contains(TrimUser(TrimScheme(url)), <<":">>)
    /\ Contains(TrimUser(TrimScheme(url)), <<"~">>)
    /\ Contains(url, <<"@">>)

\* C10: every shape of remote for host h and path p is placed at root/h/p,
\* whatever its scheme, user and port, with or without '~' and 'scm/'.
C10_SameDestination ==
    (new_path.run /\ form # Free) =>
        new_path.value = Root \o <<"/">> \o form.h \o <<"/">> \o form.p

\* C15: a URL that is not a local path and does not end in '.git' or '.git/'
\* gets the same path when it is given with '.git' or '.git/' at its end, also
\* when it has '.git' somewhere before its end.
C15_OnlyTrailingGitRemoved ==
    [][(new_path.run /\ ~IsLocalUrl(url) /\ url' # url) =>
           new_path'.value = new_path.value]_vars

\* C16: for a URL that is not a local path the returned path lies under root.
C16_UnderRoot ==
    (new_path.run /\ ~IsLocalUrl(url)) =>
        startswith(new_path.value, Root \o <<"/">>)

----------------------------------------------------------------------------
(* Properties of clone (SpecClone).                                        *)

\* C11: a clone whose path is a directory before the call ends the process
\* with status 1, without git.Repo.clone_from having been called and with the
\* filesystem as it was.
C11_ExistingDestinationRefused ==
    [][(Len(log') = Len(log) + 1 /\ isdir(fs, log'[Len(log')].fs_path)) =>
           /\ log'[Len(log')].outcome = "exit1"
           /\ ~log'[Len(log')].invoked
           /\ fs' = fs]_vars

\* C11's case: a call was refused for a path that a clone of the same run
\* had made
C11_Witness ==
    \E j, k \in DOMAIN log :
        /\ j < k
        /\ log[j].outcome = "cloned"
        /\ log[k].fs_path = log[j].fs_path
        /\ log[k].outcome = "exit1"

\* the paths of the calls are distinct and have one parent directory
Siblings(l) ==
    \A i, j \in DOMAIN l :
        /\ dirname(l[i].fs_path) = dirname(l[j].fs_path)
        /\ i # j => l[i].fs_path # l[j].fs_path

\* nothing on the way to p is a regular file
NoFileAbove(f, p) == \A q \in Prefixes(Resolve(p)) : q \in DOMAIN f => f[q].k = "dir"

\* C12: in a sequence of clones to distinct paths with one parent directory,
\* the parent being absent or a directory before the first call, no call ends
\* on an error of the creation of the parent, after each call the parent is a
\* directory, and the clone is made for every path that did not exist.
C12_SiblingClones ==
    (log # <<>> /\ Siblings(log) /\ NoFileAbove(fs0, dirname(log[1].fs_path))) =>
        \A k \in DOMAIN log :
            /\ log[k].outcome # "raised"
            /\ isdir(fs, dirname(log[k].fs_path))
            /\ ~exists(fs0, log[k].fs_path) => log[k].invoked

\* C12's case: two clones were made under a parent directory that did not
\* exist before the first
C12_Witness ==
    /\ Len(log) >= 2
    /\ Siblings(log)
    /\ ~exists(fs0, dirname(log[1].fs_path))
    /\ \A k \in DOMAIN log : log[k].outcome = "cloned"

====
